---- MODULE Spec2Model ----
(***************************************************************************)
(* A model of gandt/data/analyse_labels_data.py: the reader of a response  *)
(* file (read_responses), the per-image consensus                          *)
(* (get_summary_stats_for_image), the worker reliability table             *)
(* (get_workers_reliability) and the filtering pipeline                    *)
(* (filter_out_unreliable_workers).                                        *)
(*                                                                         *)
(* Tables (pandas DataFrames) are sequences of rows, rows are records.     *)
(* A Python dict is a TLA+ function whose DOMAIN is the dict's key set.    *)
(* A float that the code only multiplies by or compares with small         *)
(* integers (min_ratings_prop, reliability_threshold, a mean) is the pair  *)
(* <<numerator, denominator>>; comparisons are cross-multiplied, which     *)
(* agrees with IEEE double arithmetic for the magnitudes modelled here.    *)
(***************************************************************************)
EXTENDS Integers, Sequences, FiniteSets, TLC

VARIABLES
    pc,                         \* "start" before the call, "returned" after it
    raw_labels,                 \* get_summary_stats_for_image: one image's rows
    output,                     \* get_summary_stats_for_image: its result
    min_ratings_no,             \* configuration shared by the three functions
    min_ratings_prop,
    reliability_threshold,
    no_labels_per_experiment,
    experiments,                \* get_workers_reliability: <<experiment_df>> \o previous_experiments
    df_workers,                 \* get_workers_reliability: its result
    raw_responses,              \* filter_out_unreliable_workers: the caller's table
    previous_experiments,       \* filter_out_unreliable_workers: the caller's list of tables
    include_previous_in_output,
    returned,                   \* filter_out_unreliable_workers: its result
    decoys,                     \* get_summary_stats_for_image: {filename: category}
    data,                       \* read_responses: the parsed content of the file
    raw_results                 \* read_responses: its result

vars == <<pc, raw_labels, output, min_ratings_no, min_ratings_prop,
          reliability_threshold, no_labels_per_experiment, experiments,
          df_workers, raw_responses, previous_experiments,
          include_previous_in_output, returned, decoys, data, raw_results>>

(***************************************************************************)
(* Bounds and input alphabets                                              *)
(***************************************************************************)
\* rows of one image group handed to get_summary_stats_for_image
MaxRows == 3

\* consensus rows (images) over all the rounds handed to get_workers_reliability
MaxQualityRows == 3

\* previous experiments handed to get_workers_reliability
MaxPrevious == 2

\* raw records handed to filter_out_unreliable_workers, over the current
\* and the previous experiments together
MaxRecords == 3

\* get_workers_reliability's default no_labels_per_experiment
DefaultNoLabelsPerExperiment == 20

Workers == {"a", "b"}

\* Image file names and job names, in ascending order (groupby sorts its keys).
ImageOrder == <<"img1", "img2">>

JobOrder == <<"jobA", "jobB">>

\* The labels, in ascending code-point order (the order of Python's sorted).
LabelOrder == <<"Cat", "Dog">>

Labels == {LabelOrder[i] : i \in DOMAIN LabelOrder}

\* What one worker can submit for one image: nothing, one label, several.
LabelLists == {<<>>, <<"Cat">>, <<"Dog">>, <<"Dog", "Cat">>, <<"Dog", "Dog">>}

MinRatingsNoValues == 1..3

\* min_ratings_prop as <<numerator, denominator>>: 0.25, 0.5 (the default), 0.75
MinRatingsPropValues == {<<1, 4>>, <<1, 2>>, <<3, 4>>}

SeqsUpTo(S, n) == UNION {[1..k -> S] : k \in 0..n}

NonEmptySeqsUpTo(S, n) == UNION {[1..k -> S] : k \in 1..n}

NotCalled == [raised |-> "not called"]

(***************************************************************************)
(* get_summary_stats_for_image                                             *)
(***************************************************************************)
\* raw_labels['labels'].sum(): the rows' label lists, concatenated in row order
RECURSIVE SumLabels(_)
SumLabels(rows) ==
    IF rows = <<>> THEN <<>>
    ELSE Head(rows).labels \o SumLabels(Tail(rows))

\* Counter(labels): label -> number of occurrences, for the labels that occur
Counter(labels) ==
    [l \in {labels[i] : i \in DOMAIN labels} |->
        Cardinality({i \in DOMAIN labels : labels[i] = l})]

\* label_counts.most_common(1)[0][1]: the highest count (the Counter is not empty)
MostCommonCount(label_counts) ==
    CHOOSE c \in {label_counts[l] : l \in DOMAIN label_counts} :
        \A l \in DOMAIN label_counts : label_counts[l] <= c

Rank(l) == CHOOSE i \in DOMAIN LabelOrder : LabelOrder[i] = l

\* sorted(S) for a set of labels
RECURSIVE Sorted(_)
Sorted(S) ==
    IF S = {} THEN <<>>
    ELSE LET m == CHOOSE x \in S : \A y \in S : Rank(x) <= Rank(y)
         IN  <<m>> \o Sorted(S \ {m})

\* Mutant: the tie is broken, only one of the tied labels is reported.
MostCommonLabelsFirstOnly(label_counts, most_common_count) ==
    <<CHOOSE k \in DOMAIN label_counts : label_counts[k] = most_common_count>>

\* sorted([k for k, v in label_counts.items() if v == most_common_count])
MostCommonLabels(label_counts, most_common_count) ==
    Sorted({k \in DOMAIN label_counts : label_counts[k] = most_common_count})

\* Mutant: "or" in place of "and".
IsCertainEither(most_common_count, no_labels, ratings_no, ratings_prop) ==
    \/ most_common_count >= ratings_no
    \/ most_common_count * ratings_prop[2] > ratings_prop[1] * no_labels

\* Mutant: "==" in place of ">=" on the count.
IsCertainExactCount(most_common_count, no_labels, ratings_no, ratings_prop) ==
    /\ most_common_count = ratings_no
    /\ most_common_count * ratings_prop[2] > ratings_prop[1] * no_labels

\* most_common_count >= min_ratings_no and
\* most_common_count > min_ratings_prop * no_labels
IsCertain(most_common_count, no_labels, ratings_no, ratings_prop) ==
    /\ most_common_count >= ratings_no
    /\ most_common_count * ratings_prop[2] > ratings_prop[1] * no_labels

\* int(any(label in most_common_labels for label in labels))
IsMajorityLabel(labels, most_common_labels) ==
    IF \E i \in DOMAIN labels : \E j \in DOMAIN most_common_labels :
           labels[i] = most_common_labels[j]
    THEN 1 ELSE 0

\* d[k] = v on a dict
DictSet(d, k, v) == (k :> v) @@ d

\* Mutant: the loop records agreement whether or not the image is certain.
RECURSIVE WorkerQualityMappingAlways(_, _, _, _)
WorkerQualityMappingAlways(rows, is_certain, most_common_labels, mapping) ==
    IF rows = <<>> THEN mapping
    ELSE WorkerQualityMappingAlways(
            Tail(rows), is_certain, most_common_labels,
            DictSet(mapping, Head(rows).worker_id,
                    IsMajorityLabel(Head(rows).labels, most_common_labels)))

\* the loop over raw_labels.iterrows() that fills worker_quality_mapping
RECURSIVE WorkerQualityMapping(_, _, _, _)
WorkerQualityMapping(rows, is_certain, most_common_labels, mapping) ==
    IF rows = <<>> THEN mapping
    ELSE WorkerQualityMapping(
            Tail(rows), is_certain, most_common_labels,
            IF is_certain
            THEN DictSet(mapping, Head(rows).worker_id,
                         IsMajorityLabel(Head(rows).labels, most_common_labels))
            ELSE mapping)

\* raw_labels['image_filename'].iloc(0): iloc is an indexer object, and
\* calling it with an axis returns another indexer object for that axis, not
\* an element of the column.
ILocCall(column, axis) == [type |-> "_iLocIndexer", obj |-> column, axis |-> axis]

\* decoys[this_filename]: a str key is found when the dict has an equal key;
\* the indexer object hashes by identity and equals no key of the dict.
DecoyLookup(decoys_map, this_filename) ==
    IF this_filename.type = "str" /\ this_filename.value \in DOMAIN decoys_map
    THEN [raised |-> "none", value |-> decoys_map[this_filename.value]]
    ELSE [raised |-> "KeyError"]

\* The whole function. No label at all in the group: most_common(1) is [],
\* and [0] raises IndexError.
get_summary_stats_for_image(rows, ratings_no, ratings_prop, decoys_map) ==
    LET labels == SumLabels(rows)
        label_counts == Counter(labels)
    IN  IF labels = <<>> THEN [raised |-> "IndexError"]
        ELSE
        LET most_common_count == MostCommonCount(label_counts)
            most_common_labels == MostCommonLabels(label_counts, most_common_count)
            no_labels == Len(rows)
            is_certain == IsCertain(most_common_count, no_labels,
                                    ratings_no, ratings_prop)
            this_filename ==
                ILocCall([i \in DOMAIN rows |-> rows[i].image_filename], 0)
            decoy == DecoyLookup(decoys_map, this_filename)
        IN  [raised |-> "none",
             worker_list |-> [i \in DOMAIN rows |-> rows[i].worker_id],
             labels |-> labels,
             labels_all_same |-> Cardinality(DOMAIN label_counts) = 1,
             no_most_common_labels |-> most_common_count,
             no_eligible_workers |-> no_labels,
             majority_label |-> most_common_labels,
             is_label_certain |-> is_certain,
             decoy_label |-> IF decoy.raised = "none" THEN decoy.value ELSE "nan",
             is_decoy |-> decoy.raised = "none",
             worker_quality |->
                 WorkerQualityMapping(rows, is_certain, most_common_labels, <<>>)]

(***************************************************************************)
(* SpecImage: get_summary_stats_for_image on one image group               *)
(***************************************************************************)
ImageRows ==
    {[image_filename |-> "img1", labelling_job_name |-> "jobA",
      worker_id |-> w, labels |-> ls] : w \in Workers, ls \in LabelLists}

InitImage ==
    /\ pc = "start"
    /\ raw_labels \in NonEmptySeqsUpTo(ImageRows, MaxRows)
    /\ min_ratings_no \in MinRatingsNoValues
    /\ min_ratings_prop \in MinRatingsPropValues
    /\ output = NotCalled
    /\ reliability_threshold = <<4, 5>>
    /\ no_labels_per_experiment = DefaultNoLabelsPerExperiment
    /\ experiments = <<>>
    /\ df_workers = <<>>
    /\ raw_responses = <<>>
    /\ previous_experiments = <<>>
    /\ include_previous_in_output = FALSE
    /\ returned = NotCalled
    /\ decoys = <<>>
    /\ data = <<>>
    /\ raw_results = NotCalled

GetSummaryStatsForImage ==
    /\ pc = "start"
    /\ output' = get_summary_stats_for_image(raw_labels, min_ratings_no,
                                             min_ratings_prop, decoys)
    /\ pc' = "returned"
    /\ UNCHANGED <<decoys, data, raw_results, raw_labels, min_ratings_no, min_ratings_prop,
                   reliability_threshold, no_labels_per_experiment, experiments,
                   df_workers, raw_responses, previous_experiments,
                   include_previous_in_output, returned>>

\* The caller runs the function again on the same rows with thresholds that
\* are at least as strict.
RaiseThresholds ==
    /\ pc \in {"returned", "rerun"}
    /\ \E n \in MinRatingsNoValues, p \in MinRatingsPropValues :
        /\ n >= min_ratings_no
        /\ p[1] * min_ratings_prop[2] >= min_ratings_prop[1] * p[2]
        /\ <<n, p>> # <<min_ratings_no, min_ratings_prop>>
        /\ min_ratings_no' = n
        /\ min_ratings_prop' = p
        /\ output' = get_summary_stats_for_image(raw_labels, n, p, decoys)
    /\ pc' = "rerun"
    /\ UNCHANGED <<decoys, data, raw_results, raw_labels, reliability_threshold,
                   no_labels_per_experiment, experiments, df_workers,
                   raw_responses, previous_experiments,
                   include_previous_in_output, returned>>

NextImage == GetSummaryStatsForImage \/ RaiseThresholds

SpecImage == InitImage /\ [][NextImage]_vars

(***************************************************************************)
(* SpecDecoy: get_summary_stats_for_image with a decoy map and the default *)
(* thresholds                                                              *)
(***************************************************************************)
\* The decoys handed to the function: none (the default), the image of the
\* group with its known label, another image.
DecoyMaps == {<<>>, "img1" :> "Cat", "img2" :> "Dog"}

InitDecoy ==
    /\ pc = "start"
    /\ raw_labels \in NonEmptySeqsUpTo(ImageRows, MaxRows)
    /\ decoys \in DecoyMaps
    /\ min_ratings_no = 2
    /\ min_ratings_prop = <<1, 2>>
    /\ output = NotCalled
    /\ reliability_threshold = <<4, 5>>
    /\ no_labels_per_experiment = DefaultNoLabelsPerExperiment
    /\ experiments = <<>>
    /\ df_workers = <<>>
    /\ raw_responses = <<>>
    /\ previous_experiments = <<>>
    /\ include_previous_in_output = FALSE
    /\ returned = NotCalled
    /\ data = <<>>
    /\ raw_results = NotCalled

NextDecoy == GetSummaryStatsForImage

SpecDecoy == InitDecoy /\ [][NextDecoy]_vars

(***************************************************************************)
(* Properties of get_summary_stats_for_image, checked under SpecImage      *)
(***************************************************************************)
Called == pc \in {"returned", "rerun"}

Returned == Called /\ output.raised = "none"

CountIn(ls, l) == Cardinality({i \in DOMAIN ls : ls[i] = l})

\* how often label l was submitted for the image, over all its rows
RECURSIVE Occurrences(_, _)
Occurrences(rows, l) ==
    IF rows = <<>> THEN 0
    ELSE CountIn(Head(rows).labels, l) + Occurrences(Tail(rows), l)

MaxOccurrences(rows) ==
    CHOOSE c \in {Occurrences(rows, l) : l \in Labels} :
        \A l \in Labels : Occurrences(rows, l) <= c

SeqElems(s) == {s[i] : i \in DOMAIN s}

\* C1: a returned summary has is_label_certain true if and only if the
\* majority count is at least min_ratings_no AND strictly greater than
\* min_ratings_prop times the number of records of the group.
C1_CertainIffBothConditions ==
    Returned =>
        /\ output.no_eligible_workers = Len(raw_labels)
        /\ output.no_most_common_labels = MaxOccurrences(raw_labels)
        /\ output.is_label_certain <=>
              ( /\ MaxOccurrences(raw_labels) >= min_ratings_no
                /\ MaxOccurrences(raw_labels) * min_ratings_prop[2]
                     > min_ratings_prop[1] * Len(raw_labels) )

\* 2 agreeing labels out of 2 with min_ratings_no = 3: the proportion condition
\* holds, the count condition fails, the image is not certain.
C1_Witness ==
    /\ pc = "returned"
    /\ output.raised = "none"
    /\ Len(raw_labels) = 2
    /\ \A i \in DOMAIN raw_labels : raw_labels[i].labels = <<"Cat">>
    /\ min_ratings_no = 3
    /\ min_ratings_prop = <<1, 2>>
    /\ output.no_most_common_labels = 2
    /\ ~output.is_label_certain

\* C2: majority_label lists exactly the labels whose frequency is the maximum
\* frequency, each once, in ascending lexicographic order, and certainty is
\* evaluated against that maximum count.
C2_MajorityIsAllTiedLabelsSorted ==
    Returned =>
        /\ SeqElems(output.majority_label)
              = {l \in Labels : /\ Occurrences(raw_labels, l) > 0
                                /\ Occurrences(raw_labels, l)
                                     = MaxOccurrences(raw_labels)}
        /\ \A i, j \in DOMAIN output.majority_label :
              i < j => Rank(output.majority_label[i])
                        < Rank(output.majority_label[j])
        /\ output.no_most_common_labels = MaxOccurrences(raw_labels)
        /\ output.is_label_certain <=>
              IsCertain(MaxOccurrences(raw_labels), Len(raw_labels),
                        min_ratings_no, min_ratings_prop)

\* A tie in which "Dog" is submitted before "Cat": both are reported, "Cat"
\* first, and the tied count (2) decides certainty.
C2_Witness ==
    /\ pc = "returned"
    /\ output.raised = "none"
    /\ raw_labels[1].labels = <<"Dog", "Dog">>
    /\ Occurrences(raw_labels, "Cat") = 2
    /\ Occurrences(raw_labels, "Dog") = 2
    /\ output.majority_label = <<"Cat", "Dog">>
    /\ output.no_most_common_labels = 2
    /\ output.is_label_certain

\* C3: an image that is not certain has an empty worker_quality map; a
\* non-empty map only comes with a certain image.
C3_UncertainImageHasNoAgreement ==
    Returned =>
        /\ ~output.is_label_certain => DOMAIN output.worker_quality = {}
        /\ DOMAIN output.worker_quality # {} => output.is_label_certain

\* An uncertain image all of whose workers chose a majority label.
C3_Witness ==
    /\ pc = "returned"
    /\ output.raised = "none"
    /\ ~output.is_label_certain
    /\ Len(raw_labels) = 2
    /\ raw_labels[1].worker_id # raw_labels[2].worker_id
    /\ \A i \in DOMAIN raw_labels :
          IsMajorityLabel(raw_labels[i].labels, output.majority_label) = 1
    /\ output.worker_quality = <<>>

\* C8: with the rows fixed, an image that is not certain stays not certain
\* when min_ratings_no and min_ratings_prop are raised.
C8_CertaintyMonotonic ==
    [][(Returned /\ ~output.is_label_certain /\ pc' = "rerun")
          => (output'.raised = "none" /\ ~output'.is_label_certain)]_vars

\* A rerun with raised thresholds of an image that has two agreeing labels and
\* is still not certain.
C8_Witness ==
    /\ pc = "rerun"
    /\ output.raised = "none"
    /\ output.no_most_common_labels >= 2
    /\ ~output.is_label_certain

\* C12: is_decoy is true, and decoy_label is the entry of the decoy map
\* for the group's image_filename, exactly when that file name is a key of
\* the map; otherwise is_decoy is false, and no error is raised.
C12_IsDecoyIffFilenameInDecoyMap ==
    Returned =>
        LET image_filename == raw_labels[1].image_filename IN
        /\ output.is_decoy <=> image_filename \in DOMAIN decoys
        /\ output.is_decoy => output.decoy_label = decoys[image_filename]

\* the labels of all the records of the worker in the group
LabelsOfWorker(rows, worker) ==
    UNION {SeqElems(rows[i].labels) : i \in {j \in DOMAIN rows : rows[j].worker_id = worker}}

\* C13: for a certain image, worker_quality maps every contributing worker
\* to 1 if at least one label the worker submitted is a majority label, to 0
\* otherwise.
C13_AgreementIffAnyLabelInMajority ==
    (Returned /\ output.is_label_certain) =>
        /\ DOMAIN output.worker_quality = SeqElems(output.worker_list)
        /\ \A w \in DOMAIN output.worker_quality :
              output.worker_quality[w] =
                  IF LabelsOfWorker(raw_labels, w) \cap SeqElems(output.majority_label) # {}
                  THEN 1 ELSE 0

(***************************************************************************)
(* get_workers_reliability                                                 *)
(***************************************************************************)
\* pd.concat([experiment_df] + list(previous_experiments)): the rows of the
\* tables, one table after the other
RECURSIVE Concat(_)
Concat(tables) ==
    IF tables = <<>> THEN <<>>
    ELSE Head(tables) \o Concat(Tail(tables))

\* worker_reliability[worker_id] after the loop over
\* all_experiments['worker_quality']: the worker's ratings in row order
AgreementScores(all_experiments, worker_id) ==
    LET rated == SelectSeq(all_experiments,
                           LAMBDA row : worker_id \in DOMAIN row.worker_quality)
    IN  [i \in DOMAIN rated |-> rated[i].worker_quality[worker_id]]

\* the sum of a sequence of numbers (halved, to keep the recursion shallow)
RECURSIVE SeqSum(_)
SeqSum(s) ==
    IF s = <<>> THEN 0
    ELSE IF Len(s) = 1 THEN s[1]
    ELSE SeqSum(SubSeq(s, 1, Len(s) \div 2))
            + SeqSum(SubSeq(s, Len(s) \div 2 + 1, Len(s)))

\* pd.np.mean(agreement_scores), as <<sum, number of scores>>
Mean(agreement_scores) == <<SeqSum(agreement_scores), Len(agreement_scores)>>

\* Mutant: ">=" in place of ">".
IsWorkerReliableOrEqual(agreement_scores, threshold) ==
    Mean(agreement_scores)[1] * threshold[2]
        >= threshold[1] * Mean(agreement_scores)[2]

\* pd.np.mean(agreement_scores) > reliability_threshold
IsWorkerReliable(agreement_scores, threshold) ==
    Mean(agreement_scores)[1] * threshold[2]
        > threshold[1] * Mean(agreement_scores)[2]

\* Mutant: a partial round is counted (the division rounds up).
ExperimentCountRoundedUp(agreement_scores, labels_per_experiment) ==
    (Len(agreement_scores) + labels_per_experiment - 1) \div labels_per_experiment

\* len(agreement_scores) // no_labels_per_experiment
ExperimentCount(agreement_scores, labels_per_experiment) ==
    Len(agreement_scores) \div labels_per_experiment

\* the loop over worker_reliability.items() that fills worker_data; the table
\* is modelled as worker_id -> row (the order of its rows is not)
RECURSIVE WorkerData(_, _, _, _)
WorkerData(worker_ids, all_experiments, threshold, labels_per_experiment) ==
    IF worker_ids = {} THEN <<>>
    ELSE LET worker_id == CHOOSE w \in worker_ids : TRUE
             agreement_scores == AgreementScores(all_experiments, worker_id)
         IN  (worker_id :>
                 [worker_id |-> worker_id,
                  mean |-> Mean(agreement_scores),
                  count |-> ExperimentCount(agreement_scores,
                                            labels_per_experiment),
                  is_worker_reliable |->
                      IsWorkerReliable(agreement_scores, threshold)])
             @@ WorkerData(worker_ids \ {worker_id}, all_experiments,
                           threshold, labels_per_experiment)

\* Mutant: every known worker gets a row, rated or not.
get_workers_reliability_all_workers(experiment_df, previous, threshold, labels_per_experiment) ==
    WorkerData(Workers, Concat(<<experiment_df>> \o previous), threshold,
               labels_per_experiment)

\* The whole function: one row per worker that has a rating in some
\* worker_quality of the concatenated tables.
get_workers_reliability(experiment_df, previous, threshold, labels_per_experiment) ==
    LET all_experiments == Concat(<<experiment_df>> \o previous)
        rated == UNION {DOMAIN all_experiments[i].worker_quality :
                            i \in DOMAIN all_experiments}
    IN  WorkerData(rated, all_experiments, threshold, labels_per_experiment)

(***************************************************************************)
(* SpecWorkers: get_workers_reliability on consensus tables                *)
(***************************************************************************)
\* worker_quality of one consensus row: empty for an image that is not certain
QualityMaps ==
    {<<>>, [w \in {"a"} |-> 0], [w \in {"a"} |-> 1], [w \in {"b"} |-> 1],
     [w \in Workers |-> IF w = "a" THEN 0 ELSE 1], [w \in Workers |-> 1]}

QualityRows == {[worker_quality |-> m] : m \in QualityMaps}

\* the tables of tests/test_analyse_labels_data.py
exp_a_unreliable ==
    [i \in 1..100 |->
        [worker_quality |-> [w \in Workers |-> IF w = "a" /\ i <= 20 THEN 0 ELSE 1]]]

exp_a_reliable == [i \in 1..100 |-> [worker_quality |-> [w \in Workers |-> 1]]]

ReliabilityThresholdValues == {<<1, 2>>, <<4, 5>>}

\* rows cut into rounds at the positions cuts[1] <= cuts[2] <= ...
Rounds(rows, cuts) ==
    [r \in 1..(Len(cuts) + 1) |->
        SubSeq(rows,
               (IF r = 1 THEN 0 ELSE cuts[r - 1]) + 1,
               IF r = Len(cuts) + 1 THEN Len(rows) ELSE cuts[r])]

InitWorkers ==
    /\ pc = "start"
    /\ \/ /\ \E rows \in SeqsUpTo(QualityRows, MaxQualityRows) :
               \E cuts \in SeqsUpTo(0..Len(rows), MaxPrevious) :
                   /\ \A i \in 1..(Len(cuts) - 1) : cuts[i] <= cuts[i + 1]
                   /\ experiments = Rounds(rows, cuts)
          /\ reliability_threshold \in ReliabilityThresholdValues
          /\ no_labels_per_experiment = 2
       \/ /\ experiments \in {<<exp_a_unreliable>>,
                              <<exp_a_unreliable, exp_a_reliable>>,
                              <<exp_a_reliable, exp_a_unreliable>>}
          /\ reliability_threshold = <<4, 5>>
          /\ no_labels_per_experiment \in {5, 20}
    /\ df_workers = NotCalled
    /\ raw_labels = <<>>
    /\ min_ratings_no = 2
    /\ min_ratings_prop = <<1, 2>>
    /\ output = NotCalled
    /\ raw_responses = <<>>
    /\ previous_experiments = <<>>
    /\ include_previous_in_output = FALSE
    /\ returned = NotCalled
    /\ decoys = <<>>
    /\ data = <<>>
    /\ raw_results = NotCalled

GetWorkersReliability ==
    /\ pc = "start"
    /\ df_workers' = get_workers_reliability(
                        Head(experiments), Tail(experiments),
                        reliability_threshold, no_labels_per_experiment)
    /\ pc' = "returned"
    /\ UNCHANGED <<decoys, data, raw_results, raw_labels, output, min_ratings_no, min_ratings_prop,
                   reliability_threshold, no_labels_per_experiment, experiments,
                   raw_responses, previous_experiments,
                   include_previous_in_output, returned>>

NextWorkers == GetWorkersReliability

SpecWorkers == InitWorkers /\ [][NextWorkers]_vars

(***************************************************************************)
(* Properties of get_workers_reliability, checked under SpecWorkers        *)
(***************************************************************************)
\* the places <<round, row>> of the supplied tables where the worker is rated
Observations(rounds, w) ==
    {<<r, i>> \in UNION {{r} \X DOMAIN rounds[r] : r \in DOMAIN rounds} :
        w \in DOMAIN rounds[r][i].worker_quality}

Agreements(rounds, w) ==
    {o \in Observations(rounds, w) : rounds[o[1]][o[2]].worker_quality[w] = 1}

\* C4: a worker is marked reliable if and only if the mean of the worker's
\* agreement observations, pooled over the current and the historical rounds,
\* is strictly greater than reliability_threshold; 80 of 100 at 0.8 is not
\* reliable, 180 of 200 is.
C4_ReliableIffPooledMeanAboveThreshold ==
    pc = "returned" =>
        /\ \A w \in DOMAIN df_workers :
              df_workers[w].is_worker_reliable <=>
                  Cardinality(Agreements(experiments, w)) * reliability_threshold[2]
                    > reliability_threshold[1]
                        * Cardinality(Observations(experiments, w))
        /\ experiments = <<exp_a_unreliable>> =>
              ~df_workers["a"].is_worker_reliable
        /\ experiments = <<exp_a_unreliable, exp_a_reliable>> =>
              df_workers["a"].is_worker_reliable

\* Worker a agreed 80 times out of 100 and the threshold is 0.8.
C4_Witness ==
    /\ pc = "returned"
    /\ experiments = <<exp_a_unreliable>>
    /\ reliability_threshold = <<4, 5>>
    /\ df_workers["a"].mean = <<80, 100>>
    /\ ~df_workers["a"].is_worker_reliable
    /\ df_workers["b"].is_worker_reliable

\* the sequence s in the order given by the permutation p of its indices
Reordered(s, p) == [i \in DOMAIN s |-> s[p[i]]]

\* C5: a worker with M pooled observations is reported with count = M // N,
\* and the count and the mean are the same however the rounds are ordered.
C5_CountIsFloorDivisionInAnyOrder ==
    pc = "returned" =>
        /\ \A w \in DOMAIN df_workers :
              df_workers[w].count
                = Cardinality(Observations(experiments, w))
                    \div no_labels_per_experiment
        /\ \A p \in Permutations(DOMAIN experiments) :
              LET other == get_workers_reliability(
                               Head(Reordered(experiments, p)),
                               Tail(Reordered(experiments, p)),
                               reliability_threshold, no_labels_per_experiment)
              IN  /\ DOMAIN other = DOMAIN df_workers
                  /\ \A w \in DOMAIN df_workers :
                        /\ other[w].count = df_workers[w].count
                        /\ other[w].mean = df_workers[w].mean

\* Three observations of worker a in two rounds, N = 2: the count is 1, the
\* third observation is in the mean.
C5_Witness ==
    /\ pc = "returned"
    /\ Len(experiments) = 2
    /\ Len(experiments[1]) = 1
    /\ no_labels_per_experiment = 2
    /\ Cardinality(Observations(experiments, "a")) = 3
    /\ df_workers["a"].count = 1
    /\ df_workers["a"].mean = <<2, 3>>

\* C15: the reliability table has exactly one row per worker that has at
\* least one agreement observation in the worker_quality maps of the current
\* and the previous consensus tables; a worker without any observation has
\* no row.
C15_OneRowPerObservedWorker ==
    pc = "returned" =>
        /\ DOMAIN df_workers = {w \in Workers : Observations(experiments, w) # {}}
        /\ \A w \in DOMAIN df_workers : df_workers[w].worker_id = w

\* Worker a has observations in two rounds, worker b has none, and one image
\* was not certain: the table has a row for a only.
C15_Witness ==
    /\ pc = "returned"
    /\ Len(experiments) >= 2
    /\ \E r \in DOMAIN experiments : \E i \in DOMAIN experiments[r] :
          experiments[r][i].worker_quality = <<>>
    /\ \A r \in DOMAIN experiments : Observations(experiments, "a") \cap ({r} \X (1..MaxQualityRows)) # {}
    /\ DOMAIN df_workers = {"a"}

(***************************************************************************)
(* filter_out_unreliable_workers                                           *)
(***************************************************************************)
Position(order, x) == CHOOSE i \in DOMAIN order : order[i] = x

\* the order of two group keys <<image_filename, labelling_job_name>>
KeyLess(k1, k2) ==
    \/ Position(ImageOrder, k1[1]) < Position(ImageOrder, k2[1])
    \/ /\ k1[1] = k2[1]
       /\ Position(JobOrder, k1[2]) < Position(JobOrder, k2[2])

RECURSIVE SortedKeys(_)
SortedKeys(K) ==
    IF K = {} THEN <<>>
    ELSE LET m == CHOOSE x \in K : \A y \in K \ {x} : KeyLess(x, y)
         IN  <<m>> \o SortedKeys(K \ {m})

\* Mutant: the rows are grouped by image_filename alone.
GroupKeyImageOnly(row) == <<row.image_filename, "jobA">>

\* the key of groupby(['image_filename', 'labelling_job_name'])
GroupKey(row) == <<row.image_filename, row.labelling_job_name>>

GroupRows(table, key) == SelectSeq(table, LAMBDA row : GroupKey(row) = key)

\* the row of the grouped table for one group: the group's key and the
\* function's output (an exception has no other field)
AnnotatedRow(key, stats) ==
    IF stats.raised # "none" THEN stats
    ELSE [raised |-> "none",
          image_filename |-> key[1],
          labelling_job_name |-> key[2],
          worker_list |-> stats.worker_list,
          labels |-> stats.labels,
          labels_all_same |-> stats.labels_all_same,
          no_most_common_labels |-> stats.no_most_common_labels,
          no_eligible_workers |-> stats.no_eligible_workers,
          majority_label |-> stats.majority_label,
          is_label_certain |-> stats.is_label_certain,
          decoy_label |-> stats.decoy_label,
          is_decoy |-> stats.is_decoy,
          worker_quality |-> stats.worker_quality]

\* apply: the function on each group, in the order of the keys
RECURSIVE ApplyToGroups(_, _, _, _, _)
ApplyToGroups(table, keys, ratings_no, ratings_prop, decoys_map) ==
    IF keys = <<>> THEN <<>>
    ELSE <<AnnotatedRow(Head(keys),
                        get_summary_stats_for_image(
                            GroupRows(table, Head(keys)),
                            ratings_no, ratings_prop, decoys_map))>>
         \o ApplyToGroups(table, Tail(keys), ratings_no, ratings_prop, decoys_map)

\* table.groupby([...], as_index=False).apply(get_summary_stats_for_image,
\* ...).reset_index(): one row per group, in the order of the sorted keys,
\* carrying its key. An exception of one group is the exception of the call.
groupby_apply(table, ratings_no, ratings_prop, decoys_map) ==
    LET keys == SortedKeys({GroupKey(table[i]) : i \in DOMAIN table})
        rows == ApplyToGroups(table, keys, ratings_no, ratings_prop, decoys_map)
    IN  IF \E g \in DOMAIN rows : rows[g].raised # "none"
        THEN [raised |-> "IndexError"]
        ELSE [raised |-> "none", rows |-> rows]

\* [responses.groupby(...).apply(...).reset_index()
\*  for responses in previous_experiments]
RECURSIVE AnnotateAll(_, _, _, _)
AnnotateAll(tables, ratings_no, ratings_prop, decoys_map) ==
    IF tables = <<>> THEN <<>>
    ELSE <<groupby_apply(Head(tables), ratings_no, ratings_prop, decoys_map)>>
         \o AnnotateAll(Tail(tables), ratings_no, ratings_prop, decoys_map)

RECURSIVE RowsOfAll(_)
RowsOfAll(annotated) ==
    IF annotated = <<>> THEN <<>>
    ELSE <<Head(annotated).rows>> \o RowsOfAll(Tail(annotated))

\* the distinct worker ids of a table in the order of their first rows
RECURSIVE FirstAppearance(_, _)
FirstAppearance(table, seen) ==
    IF table = <<>> THEN <<>>
    ELSE IF Head(table).worker_id \in seen
         THEN FirstAppearance(Tail(table), seen)
         ELSE <<Head(table).worker_id>>
                \o FirstAppearance(Tail(table), seen \cup {Head(table).worker_id})

\* one row of the join: the record and the worker's is_worker_reliable
RECURSIVE Joined(_, _)
Joined(records, is_worker_reliable) ==
    IF records = <<>> THEN <<>>
    ELSE <<[row |-> Head(records), is_worker_reliable |-> is_worker_reliable]>>
         \o Joined(Tail(records), is_worker_reliable)

RECURSIVE MergeByKey(_, _, _)
MergeByKey(table, workers_reliability, key_order) ==
    IF key_order = <<>> THEN <<>>
    ELSE (IF Head(key_order) \in DOMAIN workers_reliability
          THEN Joined(SelectSeq(table,
                          LAMBDA row : row.worker_id = Head(key_order)),
                      workers_reliability[Head(key_order)].is_worker_reliable)
          ELSE <<>>)
         \o MergeByKey(table, workers_reliability, Tail(key_order))

\* Mutant: a left join, every record is kept; a worker without a row in the
\* reliability table gets a missing is_worker_reliable, which the mask keeps.
MergeKeepingUnknown(table, workers_reliability) ==
    [i \in DOMAIN table |->
        [row |-> table[i],
         is_worker_reliable |->
            IF table[i].worker_id \in DOMAIN workers_reliability
            THEN workers_reliability[table[i].worker_id].is_worker_reliable
            ELSE TRUE]]

\* raw_responses.merge(workers_reliability): the inner join on worker_id, the
\* only common column. pandas below 2.2 returns the rows key by key, the keys
\* in the order of their first rows.
Merge(table, workers_reliability) ==
    MergeByKey(table, workers_reliability, FirstAppearance(table, {}))

\* filtered_raw_responses[filtered_raw_responses['is_worker_reliable']]
FilterReliable(merged) ==
    LET kept == SelectSeq(merged, LAMBDA m : m.is_worker_reliable)
    IN  [i \in DOMAIN kept |-> kept[i].row]

SetJobName(table, job) ==
    [i \in DOMAIN table |-> [table[i] EXCEPT !.labelling_job_name = job]]

\* Mutant: the column is assigned on the caller's tables as well.
AssignJobNameInPlace(heap, job) ==
    [heap EXCEPT !.concatenated = SetJobName(@, job),
                 !.previous_experiments =
                     [i \in DOMAIN @ |-> SetJobName(@[i], job)]]

\* previous_experiments['labelling_job_name'] = ...: by then the local name
\* previous_experiments is the table pd.concat built, not the caller's list.
AssignJobName(heap, job) ==
    [heap EXCEPT !.concatenated = SetJobName(@, job)]

Raise(exception, heap) ==
    [raised |-> exception,
     raw_responses |-> heap.raw_responses,
     previous_experiments |-> heap.previous_experiments]

\* Mutant: the historical consensus tables are not added to the first table.
UnfilteredOutputCurrentOnly(unfiltered, previous_annotated, include) ==
    unfiltered

\* unfiltered_annotated_responses as returned: with include_previous_in_output
\* it is pd.concat([unfiltered_annotated_responses] +
\* previous_experiments_annotated)
UnfilteredOutput(unfiltered, previous_annotated, include) ==
    IF include THEN Concat(<<unfiltered>> \o previous_annotated)
    ELSE unfiltered

\* Lines 298-339: the tables are annotated, the workers rated, the previous
\* experiments added when asked for, the records joined with the reliability
\* table and filtered. The objects the caller handed in are
\* heap.raw_responses and heap.previous_experiments (neither is empty, nor is
\* any table of the list); the result says what they hold when the call ends.
annotate_and_filter(responses, previous, threshold, ratings_no, ratings_prop, decoys_map, include) ==
    LET heap == [raw_responses |-> responses,
                 previous_experiments |-> previous,
                 concatenated |-> <<>>]
        unfiltered == groupby_apply(responses, ratings_no, ratings_prop, decoys_map)
        annotated == AnnotateAll(previous, ratings_no, ratings_prop, decoys_map)
    IN  IF unfiltered.raised # "none" THEN Raise(unfiltered.raised, heap)
        ELSE IF \E i \in DOMAIN annotated : annotated[i].raised # "none"
        THEN Raise("IndexError", heap)
        ELSE
        LET previous_annotated == RowsOfAll(annotated)
            workers_reliability ==
                get_workers_reliability(unfiltered.rows, previous_annotated,
                                        threshold, DefaultNoLabelsPerExperiment)
        IN  \* pd.concat of no table raises ValueError
            IF include /\ previous = <<>> THEN Raise("ValueError", heap)
            ELSE
            LET heap2 == IF include
                         THEN AssignJobName(
                                [heap EXCEPT !.concatenated = Concat(previous)],
                                responses[1].labelling_job_name)
                         ELSE heap
                working == IF include THEN responses \o heap2.concatenated
                           ELSE responses
            IN  \* a table without rows has no column: MergeError
                IF DOMAIN workers_reliability = {} THEN Raise("MergeError", heap2)
                ELSE [raised |-> "none",
                      unfiltered_annotated_responses |->
                          UnfilteredOutput(unfiltered.rows, previous_annotated,
                                           include),
                      filtered_raw_responses |->
                          FilterReliable(Merge(working, workers_reliability)),
                      workers_reliability |-> workers_reliability,
                      raw_responses |-> heap2.raw_responses,
                      previous_experiments |-> heap2.previous_experiments]

\* Lines 341-349: the filtered records are annotated and both tables returned.
\* No record left: there is no group; pandas up to 1.2 then applies nothing and
\* the table is empty, pandas from 1.3 calls the function once on the empty
\* table, where Counter(0) raises TypeError (dummy_call).
annotate_filtered(merged, ratings_no, ratings_prop, decoys_map, dummy_call) ==
    IF merged.raised # "none" THEN merged
    ELSE IF merged.filtered_raw_responses = <<>> /\ dummy_call
    THEN Raise("TypeError", merged)
    ELSE
    LET filtered == groupby_apply(merged.filtered_raw_responses, ratings_no,
                                  ratings_prop, decoys_map)
    IN  IF filtered.raised # "none" THEN Raise(filtered.raised, merged)
        ELSE [raised |-> "none",
              unfiltered_annotated_responses |->
                  merged.unfiltered_annotated_responses,
              filtered_annotated_responses |-> filtered.rows,
              workers_reliability |-> merged.workers_reliability,
              raw_responses |-> merged.raw_responses,
              previous_experiments |-> merged.previous_experiments]

(***************************************************************************)
(* Spec: filter_out_unreliable_workers on a current table and a list of    *)
(* previous tables                                                         *)
(***************************************************************************)
RawLabelLists == {<<"Cat">>, <<"Dog">>}

\* rows of the current experiment: two images, the first one labelled under
\* two job names
CurrentRows ==
    {[image_filename |-> key[1], labelling_job_name |-> key[2],
      worker_id |-> w, labels |-> ls] :
        key \in {<<"img1", "jobA">>, <<"img1", "jobB">>, <<"img2", "jobA">>},
        w \in Workers, ls \in RawLabelLists}

\* rows of the previous experiments, all of the job "jobA": the first image
\* by either worker with either label, and one record of the second image
PreviousRows ==
    {[image_filename |-> "img1", labelling_job_name |-> "jobA",
      worker_id |-> w, labels |-> ls] : w \in Workers, ls \in RawLabelLists}
    \cup {[image_filename |-> "img2", labelling_job_name |-> "jobA",
           worker_id |-> "a", labels |-> <<"Cat">>]}

\* the ways to cut the rows into at most n tables, none of them empty
RECURSIVE Splits(_, _)
Splits(rows, n) ==
    IF rows = <<>> THEN {<<>>}
    ELSE IF n = 0 THEN {}
    ELSE UNION {{<<SubSeq(rows, 1, k)>> \o rest :
                    rest \in Splits(SubSeq(rows, k + 1, Len(rows)), n - 1)} :
                k \in 1..Len(rows)}

\* min_ratings_no of the pipeline: the default 2, and 1, where one record
\* makes an image certain
PipelineMinRatingsNoValues == {1, 2}

Init ==
    /\ pc = "start"
    /\ \E t \in 1..MaxRecords : \E c \in 1..t :
          /\ raw_responses \in [1..c -> CurrentRows]
          /\ \E rows \in [1..(t - c) -> PreviousRows] :
                previous_experiments \in Splits(rows, MaxPrevious)
    /\ include_previous_in_output \in BOOLEAN
    /\ reliability_threshold = <<4, 5>>
    /\ min_ratings_no \in PipelineMinRatingsNoValues
    /\ min_ratings_prop = <<1, 2>>
    /\ no_labels_per_experiment = DefaultNoLabelsPerExperiment
    /\ returned = NotCalled
    /\ raw_labels = <<>>
    /\ output = NotCalled
    /\ experiments = <<>>
    /\ df_workers = NotCalled
    /\ decoys = <<>>
    /\ data = <<>>
    /\ raw_results = NotCalled

FilterOutUnreliableWorkers ==
    /\ pc = "start"
    /\ returned' \in
          LET merged == annotate_and_filter(
                            raw_responses, previous_experiments,
                            reliability_threshold, min_ratings_no,
                            min_ratings_prop, decoys,
                            include_previous_in_output)
          IN  {annotate_filtered(merged, min_ratings_no, min_ratings_prop,
                                 decoys, dummy_call) : dummy_call \in BOOLEAN}
    /\ raw_responses' = returned'.raw_responses
    /\ previous_experiments' = returned'.previous_experiments
    /\ pc' = "returned"
    /\ UNCHANGED <<decoys, data, raw_results, raw_labels, output, min_ratings_no, min_ratings_prop,
                   reliability_threshold, no_labels_per_experiment, experiments,
                   df_workers, include_previous_in_output>>

Next == FilterOutUnreliableWorkers

Spec == Init /\ [][Next]_vars

(***************************************************************************)
(* Properties of filter_out_unreliable_workers, checked under Spec         *)
(***************************************************************************)
ReturnedNormally == pc = "returned" /\ returned.raised = "none"

Unfiltered == returned.unfiltered_annotated_responses

Filtered == returned.filtered_annotated_responses

KeyOf(row) == <<row.image_filename, row.labelling_job_name>>

Groups(table) == {KeyOf(table[i]) : i \in DOMAIN table}

\* the records the filtered table is computed from: the current ones, and
\* the previous ones when include_previous_in_output is set
WorkingRecords ==
    IF include_previous_in_output
    THEN raw_responses \o Concat(previous_experiments)
    ELSE raw_responses

\* C6: every worker in the worker_list of a row of the filtered consensus has
\* a row in the reliability table that marks the worker reliable; a worker
\* marked unreliable or without a row contributes to no filtered row.
C6_FilteredWorkersAreReliable ==
    ReturnedNormally =>
        \A f \in DOMAIN Filtered : \A j \in DOMAIN Filtered[f].worker_list :
            LET w == Filtered[f].worker_list[j]
            IN  /\ w \in DOMAIN returned.workers_reliability
                /\ returned.workers_reliability[w].is_worker_reliable

\* A worker with records but no agreement observation is left out of a
\* filtered consensus that is not empty.
C6_Witness ==
    /\ ReturnedNormally
    /\ Filtered # <<>>
    /\ \E i \in DOMAIN WorkingRecords :
          /\ WorkingRecords[i].worker_id \notin DOMAIN returned.workers_reliability
          /\ \A f \in DOMAIN Filtered : \A j \in DOMAIN Filtered[f].worker_list :
                Filtered[f].worker_list[j] # WorkingRecords[i].worker_id

\* C7, as claimed: for every image of the filtered consensus, the number of
\* contributing workers is at most that of the unfiltered consensus returned
\* for the same image.
C7_FilteringNeverIncreasesWorkerCount ==
    ReturnedNormally =>
        \A f \in DOMAIN Filtered :
            \E u \in DOMAIN Unfiltered :
                /\ Unfiltered[u].image_filename = Filtered[f].image_filename
                /\ Len(Filtered[f].worker_list) <= Len(Unfiltered[u].worker_list)
                /\ Filtered[f].no_eligible_workers
                     <= Unfiltered[u].no_eligible_workers

\* C9: the call leaves the caller's tables as they were: the current records
\* and every table of previous records, job names included.
C9_InputsNotMutated ==
    [][/\ raw_responses' = raw_responses
       /\ previous_experiments' = previous_experiments]_vars

\* The previous records, of job "jobA", were pooled into a filtered row of the
\* current job "jobB", and the caller's previous table still says "jobA".
C9_Witness ==
    /\ ReturnedNormally
    /\ include_previous_in_output
    /\ raw_responses[1].labelling_job_name = "jobB"
    /\ previous_experiments # <<>>
    /\ previous_experiments[1][1].labelling_job_name = "jobA"
    /\ \E f \in DOMAIN Filtered :
          /\ Filtered[f].labelling_job_name = "jobB"
          /\ Len(Filtered[f].worker_list)
               > Len(SelectSeq(raw_responses,
                        LAMBDA r : KeyOf(r) = KeyOf(Filtered[f])))

\* the keys of a table's rows, in row order
KeysOf(table) == [i \in DOMAIN table |-> KeyOf(table[i])]

Ascending(keys) == \A i, j \in DOMAIN keys : i < j => KeyLess(keys[i], keys[j])

WorkersOfGroup(table, key) ==
    LET rows == SelectSeq(table, LAMBDA r : KeyOf(r) = key)
    IN  [i \in DOMAIN rows |-> rows[i].worker_id]

\* the rows of the consensus table are the groups of the records, one row
\* each, in ascending key order, with the group's workers
IsConsensusOf(consensus, records) ==
    /\ Len(consensus) = Cardinality(Groups(records))
    /\ Groups(consensus) = Groups(records)
    /\ Ascending(KeysOf(consensus))
    /\ \A i \in DOMAIN consensus :
          consensus[i].worker_list = WorkersOfGroup(records, KeyOf(consensus[i]))

\* C10, as claimed: for either value of include_previous_in_output the first
\* returned table has exactly one row per (image, job) group of the current
\* records.
C10_UnfilteredIsCurrentConsensus ==
    ReturnedNormally => IsConsensusOf(Unfiltered, raw_responses)

RECURSIVE GroupCounts(_)
GroupCounts(tables) ==
    IF tables = <<>> THEN 0
    ELSE Cardinality(Groups(Head(tables))) + GroupCounts(Tail(tables))

\* C10, amended: without include_previous_in_output the first returned table
\* has exactly one row per (image, job) group of the current records; with it,
\* these rows come first and are followed by the consensus rows of each
\* previous experiment, one per (image, job) group of that experiment under
\* its own job name.
C10_UnfilteredIsCurrentThenPreviousConsensus ==
    ReturnedNormally =>
        LET n == Cardinality(Groups(raw_responses))
        IN  /\ Len(Unfiltered) >= n
            /\ IsConsensusOf(SubSeq(Unfiltered, 1, n), raw_responses)
            /\ ~include_previous_in_output => Len(Unfiltered) = n
            /\ include_previous_in_output =>
                 /\ Len(Unfiltered) = n + GroupCounts(previous_experiments)
                 /\ \A t \in DOMAIN previous_experiments :
                      LET first == n + GroupCounts(
                                         SubSeq(previous_experiments, 1, t - 1))
                          size == Cardinality(Groups(previous_experiments[t]))
                      IN  IsConsensusOf(
                              SubSeq(Unfiltered, first + 1, first + size),
                              previous_experiments[t])

\* With include_previous_in_output the first table has the row of a previous
\* experiment, under its job name "jobA", after the row of the current
\* experiment for the same image.
C10_Witness ==
    /\ ReturnedNormally
    /\ include_previous_in_output
    /\ previous_experiments # <<>>
    /\ Cardinality(Groups(raw_responses)) = 1
    /\ Len(Unfiltered) = 2
    /\ Unfiltered[1].image_filename = Unfiltered[2].image_filename
    /\ Unfiltered[1].labelling_job_name = "jobB"
    /\ Unfiltered[2].labelling_job_name = "jobA"

\* the tables the reliability is computed from: the current one, then the
\* previous ones
RoundTables == <<raw_responses>> \o previous_experiments

\* the group of the key in the table is certain under the thresholds
IsGroupCertain(table, key) ==
    LET rows == SelectSeq(table, LAMBDA r : KeyOf(r) = key)
        counts == {Cardinality({i \in DOMAIN rows : l \in SeqElems(rows[i].labels)}) : l \in Labels}
        most == CHOOSE c \in counts : \A d \in counts : d <= c
    IN  /\ most >= min_ratings_no
        /\ most * min_ratings_prop[2] > min_ratings_prop[1] * Len(rows)

\* the worker has a record in a certain group of some round: the worker has
\* an agreement observation, hence a row in the reliability table
HasObservation(worker) ==
    \E t \in DOMAIN RoundTables : \E i \in DOMAIN RoundTables[t] :
        /\ RoundTables[t][i].worker_id = worker
        /\ IsGroupCertain(RoundTables[t], KeyOf(RoundTables[t][i]))

\* C14: a worker without a row in the reliability table does not make the
\* call fail: whenever a worker of the working records has no agreement
\* observation, also when no worker has one, the call returns normally and
\* the worker is in no row of the filtered consensus. (Calls with
\* include_previous_in_output and no previous experiment are left aside.)
C14_MissingWorkerNeverFails ==
    (/\ pc = "returned"
     /\ ~(include_previous_in_output /\ previous_experiments = <<>>)
     /\ \E i \in DOMAIN WorkingRecords : ~HasObservation(WorkingRecords[i].worker_id))
    => /\ returned.raised = "none"
       /\ \A i \in DOMAIN WorkingRecords :
             ~HasObservation(WorkingRecords[i].worker_id) =>
                 \A f \in DOMAIN Filtered : \A j \in DOMAIN Filtered[f].worker_list :
                     Filtered[f].worker_list[j] # WorkingRecords[i].worker_id

\* what the call returns for the same current records and no previous
\* experiment when include_previous_in_output is false
OutcomesWithoutFlag ==
    LET merged == annotate_and_filter(raw_responses, <<>>, reliability_threshold,
                                      min_ratings_no, min_ratings_prop, decoys,
                                      FALSE)
    IN  {annotate_filtered(merged, min_ratings_no, min_ratings_prop, decoys,
                           dummy_call) : dummy_call \in BOOLEAN}

\* C16: with no previous experiment the call with include_previous_in_output
\* returns normally, with the two tables of the call without it (stated for
\* the current records on which the call without the flag returns).
C16_EmptyPreviousAcceptedWithFlag ==
    (/\ pc = "returned"
     /\ previous_experiments = <<>>
     /\ include_previous_in_output)
    => \A o \in OutcomesWithoutFlag :
          o.raised = "none" =>
              /\ returned.raised = "none"
              /\ Unfiltered = o.unfiltered_annotated_responses
              /\ Filtered = o.filtered_annotated_responses

\* the records of reliable workers among the given ones
ByReliableWorkers(records) ==
    SelectSeq(records,
              LAMBDA r : /\ r.worker_id \in DOMAIN returned.workers_reliability
                         /\ returned.workers_reliability[r.worker_id].is_worker_reliable)

\* how many records of the worker the records have that satisfy Test
RecordCount(records, worker, Test(_)) ==
    Cardinality({i \in DOMAIN records : records[i].worker_id = worker /\ Test(records[i])})

\* the row's worker_list has the workers of the records that satisfy Test,
\* each as many times as the worker has such records (the merge reorders them)
HasWorkersOf(row, records, Test(_)) ==
    /\ Len(row.worker_list) = Cardinality({i \in DOMAIN records : Test(records[i])})
    /\ \A w \in Workers :
          Cardinality({j \in DOMAIN row.worker_list : row.worker_list[j] = w})
              = RecordCount(records, w, Test)

\* C17: with include_previous_in_output every record of a previous
\* experiment counts as a record of the current job: all the rows of the
\* filtered consensus carry one job name, a job name of the current records,
\* and the records of an image by reliable workers, current and previous,
\* make one row; without it the filtered consensus is made of the current
\* records of reliable workers only.
C17_PreviousPooledUnderCurrentJob ==
    ReturnedNormally =>
        IF include_previous_in_output
        THEN /\ \E i \in DOMAIN raw_responses :
                  \A f \in DOMAIN Filtered :
                      Filtered[f].labelling_job_name = raw_responses[i].labelling_job_name
             /\ \A f \in DOMAIN Filtered :
                  HasWorkersOf(Filtered[f],
                               ByReliableWorkers(raw_responses \o Concat(previous_experiments)),
                               LAMBDA r : r.image_filename = Filtered[f].image_filename)
        ELSE /\ Groups(Filtered) = Groups(ByReliableWorkers(raw_responses))
             /\ Len(Filtered) = Cardinality(Groups(Filtered))
             /\ \A f \in DOMAIN Filtered :
                  HasWorkersOf(Filtered[f], ByReliableWorkers(raw_responses),
                               LAMBDA r : KeyOf(r) = KeyOf(Filtered[f]))

(***************************************************************************)
(* read_responses                                                          *)
(***************************************************************************)
\* label entries in one file, over all its annotation sets and workers
MaxEntries == 2

\* annotation sets in one file
MaxAnnotationSets == 2

\* The path of the file, as os.path.abspath(fname).split(os.path.sep) sees it.
fname == <<"", "out", "jobA", "annotations", "worker-response", "iteration-1", "obj1", "resp.json">>

\* os.path.abspath(fname).split(os.path.sep)[-6]
LabellingJobName(path) == path[Len(path) - 5]

\* A source-ref is the sequence of its components between the "/"s;
\* os.path.basename is what follows the last "/".
Basename(source_ref) == source_ref[Len(source_ref)]

SourceRef1 == <<"s3:", "", "bucket", "img1">>

SourceRef2 == <<"s3:", "", "bucket", "dir", "img2">>

\* json.loads(annotation_set['dataObject']['content']): the input manifests.
\* The first has no index 1, the third has the index 0 twice.
Manifests ==
    {<<[index |-> 0, source_ref |-> SourceRef1]>>,
     <<[index |-> 0, source_ref |-> SourceRef1], [index |-> 1, source_ref |-> SourceRef2]>>,
     <<[index |-> 0, source_ref |-> SourceRef1], [index |-> 0, source_ref |-> SourceRef2]>>}

\* The keys of a worker's annotations, as sequences of characters: "x-0",
\* "x-1", "y-1" (the index of "x-1" again), "x-12" (in no manifest) and "x"
\* (no number).
LabelIds ==
    {<<"x", "-", "0">>, <<"x", "-", "1">>, <<"y", "-", "1">>,
     <<"x", "-", "1", "2">>, <<"x">>}

\* The values of a worker's annotations: JSON texts.
LabelRaws == {"[\"Cat\"]", "[\"Dog\", \"Cat\"]"}

\* json.loads(label_raw)
json_loads(label_raw) ==
    CASE label_raw = "[\"Cat\"]" -> <<"Cat">>
      [] label_raw = "[\"Dog\", \"Cat\"]" -> <<"Dog", "Cat">>
      [] label_raw = "[]" -> <<>>

\* str.split(sep): the parts of the text between the separators
RECURSIVE Split(_, _)
Split(text, sep) ==
    IF \A i \in DOMAIN text : text[i] # sep THEN <<text>>
    ELSE LET k == CHOOSE i \in DOMAIN text :
                      /\ text[i] = sep
                      /\ \A j \in 1..(i - 1) : text[j] # sep
         IN  <<SubSeq(text, 1, k - 1)>> \o Split(SubSeq(text, k + 1, Len(text)), sep)

Digits == <<"0", "1", "2", "3", "4", "5", "6", "7", "8", "9">>

DigitValue(c) == (CHOOSE i \in DOMAIN Digits : Digits[i] = c) - 1

RECURSIVE DecimalValue(_)
DecimalValue(text) ==
    IF text = <<>> THEN 0
    ELSE DecimalValue(SubSeq(text, 1, Len(text) - 1)) * 10
         + DigitValue(text[Len(text)])

\* int(text): ValueError unless the text is a decimal number
int(text) ==
    IF text = <<>> \/ \E i \in DOMAIN text : \A d \in DOMAIN Digits : Digits[d] # text[i]
    THEN [raised |-> "ValueError"]
    ELSE [raised |-> "none", value |-> DecimalValue(text)]

\* int(label_id.split('-')[-1])
LabelIndex(label_id) ==
    LET parts == Split(label_id, "-") IN int(parts[Len(parts)])

\* {d['index']: os.path.basename(d['source-ref']) for d in ...}: a later
\* entry with the same index replaces an earlier one.
RECURSIVE IndexToFilename(_, _)
IndexToFilename(labelling_job_input_data, mapping) ==
    IF labelling_job_input_data = <<>> THEN mapping
    ELSE IndexToFilename(Tail(labelling_job_input_data),
                         DictSet(mapping, Head(labelling_job_input_data).index,
                                 Basename(Head(labelling_job_input_data).source_ref)))

\* A lookup that puts an empty file name where the index is missing.
LookupWithDefault(index_to_filename, label_index) ==
    IF label_index \in DOMAIN index_to_filename
    THEN [raised |-> "none", value |-> index_to_filename[label_index]]
    ELSE [raised |-> "none", value |-> ""]

\* index_to_filename[label_index]
Lookup(index_to_filename, label_index) ==
    IF label_index \in DOMAIN index_to_filename
    THEN [raised |-> "none", value |-> index_to_filename[label_index]]
    ELSE [raised |-> "KeyError"]

\* The loop over this_worker_annotations.items(): one record per entry, and
\* the first entry whose index does not resolve ends the function.
RECURSIVE AppendWorkerAnnotations(_, _, _, _, _)
AppendWorkerAnnotations(items, worker_id, index_to_filename, dataset_object_id, results) ==
    IF items = <<>> THEN results
    ELSE
    LET label_id == Head(items)[1]
        this_labels == json_loads(Head(items)[2])
        label_index == LabelIndex(label_id)
        image_filename == IF label_index.raised = "none"
                          THEN Lookup(index_to_filename, label_index.value)
                          ELSE label_index
    IN  IF image_filename.raised # "none" THEN [raised |-> image_filename.raised]
        ELSE AppendWorkerAnnotations(
                 Tail(items), worker_id, index_to_filename, dataset_object_id,
                 [raised |-> "none",
                  rows |-> Append(results.rows,
                      [labelling_job_name |-> LabellingJobName(fname),
                       labels_fname |-> fname,
                       image_filename |-> image_filename.value,
                       image_index |-> label_index.value,
                       worker_id |-> worker_id,
                       labels |-> this_labels,
                       dataset_object_id |-> dataset_object_id])])

\* The loop over annotation_set['annotations'].
RECURSIVE AppendAnnotations(_, _, _, _)
AppendAnnotations(annotations, index_to_filename, dataset_object_id, results) ==
    IF annotations = <<>> \/ results.raised # "none" THEN results
    ELSE AppendAnnotations(
             Tail(annotations), index_to_filename, dataset_object_id,
             AppendWorkerAnnotations(Head(annotations).annotationData,
                                     Head(annotations).workerId,
                                     index_to_filename, dataset_object_id,
                                     results))

\* The loop over the annotation sets of the file.
RECURSIVE AppendAnnotationSets(_, _)
AppendAnnotationSets(annotation_sets, results) ==
    IF annotation_sets = <<>> \/ results.raised # "none" THEN results
    ELSE AppendAnnotationSets(
             Tail(annotation_sets),
             AppendAnnotations(Head(annotation_sets).annotations,
                               IndexToFilename(Head(annotation_sets).dataObject, <<>>),
                               Head(annotation_sets).datasetObjectId,
                               results))

\* The whole function: the table of the records, or the exception that ended it.
read_responses(file_data) ==
    AppendAnnotationSets(file_data, [raised |-> "none", rows |-> <<>>])

(***************************************************************************)
(* SpecRead: read_responses on one file                                    *)
(***************************************************************************)
\* all the sequences made of one element of each set of the sequence
RECURSIVE Product(_)
Product(sets) ==
    IF sets = <<>> THEN {<<>>}
    ELSE {<<h>> \o t : h \in Head(sets), t \in Product(Tail(sets))}

\* One worker's submission holding the entries: a JSON object has each key once.
Labellings(entries) ==
    IF \E i, j \in DOMAIN entries : i # j /\ entries[i][1] = entries[j][1]
    THEN {}
    ELSE {[workerId |-> w, annotationData |-> entries] : w \in Workers}

\* The ways to hand out the entries to the submissions of one annotation set.
AnnotationsOver(entries) ==
    UNION {Product([i \in DOMAIN cut |-> Labellings(cut[i])]) :
              cut \in Splits(entries, Len(entries))}

AnnotationSetsOver(entries) ==
    {[datasetObjectId |-> "obj1", dataObject |-> manifest, annotations |-> a] :
        manifest \in Manifests, a \in AnnotationsOver(entries)}

\* The files whose label entries, in the order read, are the given ones.
FilesOver(entries) ==
    UNION {Product([i \in DOMAIN cut |-> AnnotationSetsOver(cut[i])]) :
              cut \in Splits(entries, MaxAnnotationSets)}

InitRead ==
    /\ pc = "start"
    /\ \E entries \in SeqsUpTo(LabelIds \X LabelRaws, MaxEntries) :
          data \in FilesOver(entries)
    /\ raw_results = NotCalled
    /\ decoys = <<>>
    /\ raw_labels = <<>>
    /\ output = NotCalled
    /\ min_ratings_no = 2
    /\ min_ratings_prop = <<1, 2>>
    /\ reliability_threshold = <<4, 5>>
    /\ no_labels_per_experiment = DefaultNoLabelsPerExperiment
    /\ experiments = <<>>
    /\ df_workers = NotCalled
    /\ raw_responses = <<>>
    /\ previous_experiments = <<>>
    /\ include_previous_in_output = FALSE
    /\ returned = NotCalled

ReadResponses ==
    /\ pc = "start"
    /\ raw_results' = read_responses(data)
    /\ pc' = "returned"
    /\ UNCHANGED <<data, decoys, raw_labels, output, min_ratings_no,
                   min_ratings_prop, reliability_threshold,
                   no_labels_per_experiment, experiments, df_workers,
                   raw_responses, previous_experiments,
                   include_previous_in_output, returned>>

NextRead == ReadResponses

SpecRead == InitRead /\ [][NextRead]_vars

(***************************************************************************)
(* Properties of read_responses, checked under SpecRead                    *)
(***************************************************************************)
\* the label entries of the file: <<annotation set, submission, entry>>
EntryPositions ==
    {<<s, l, e>> \in (DOMAIN data) \X (1..MaxEntries) \X (1..MaxEntries) :
        /\ l \in DOMAIN data[s].annotations
        /\ e \in DOMAIN data[s].annotations[l].annotationData}

Before(p, q) ==
    \/ p[1] < q[1]
    \/ p[1] = q[1] /\ p[2] < q[2]
    \/ p[1] = q[1] /\ p[2] = q[2] /\ p[3] < q[3]

\* the place of the entry in the order the file is read
ReadOrder(p) == Cardinality({q \in EntryPositions : Before(q, p)}) + 1

LabelIdAt(p) == data[p[1]].annotations[p[2]].annotationData[p[3]][1]

\* the entry's label id ends in a number that the manifest of its annotation
\* set has as an index
Resolves(p) ==
    /\ LabelIndex(LabelIdAt(p)).raised = "none"
    /\ \E k \in DOMAIN data[p[1]].dataObject :
          data[p[1]].dataObject[k].index = LabelIndex(LabelIdAt(p)).value

\* the record is the one of the entry: its worker, its index, and the file
\* name of the manifest entry for the index (the last one, if there are several)
IsRecordOf(row, p) ==
    LET manifest == data[p[1]].dataObject IN
    /\ row.worker_id = data[p[1]].annotations[p[2]].workerId
    /\ row.image_index = LabelIndex(LabelIdAt(p)).value
    /\ \E k \in DOMAIN manifest :
          /\ manifest[k].index = row.image_index
          /\ \A j \in DOMAIN manifest : j > k => manifest[j].index # row.image_index
          /\ row.image_filename = Basename(manifest[k].source_ref)

\* C11: read_responses ends with an error, and returns no record, when the
\* label index of some entry has no entry in the index-to-filename table of
\* its annotation set; when every index resolves it returns exactly one
\* record per (worker submission, label index) entry, with the file name of
\* the manifest entry for that index.
C11_FailsOnMissingIndexElseOneRecordPerEntry ==
    pc = "returned" =>
        IF \A p \in EntryPositions : Resolves(p)
        THEN /\ raw_results.raised = "none"
             /\ Len(raw_results.rows) = Cardinality(EntryPositions)
             /\ \A p \in EntryPositions :
                    IsRecordOf(raw_results.rows[ReadOrder(p)], p)
        ELSE /\ raw_results.raised \in {"KeyError", "ValueError"}
             /\ DOMAIN raw_results = {"raised"}

\* The second entry of the file has an index that its manifest lacks, after
\* a first entry that resolved: the call ends with KeyError.
C11_Witness ==
    /\ pc = "returned"
    /\ raw_results.raised = "KeyError"
    /\ Cardinality(EntryPositions) = 2
    /\ \E p \in EntryPositions : ReadOrder(p) = 1 /\ Resolves(p)

====
